---------------------------- MODULE Spec2Model ----------------------------
(***************************************************************************)
(* Small Herd Grazing Planner (src/src/App.jsx).                           *)
(*                                                                         *)
(* Encoding of JavaScript values:                                          *)
(*   - a number, null, or a non-numeric string held in a numeric field is  *)
(*     a record [t, v]: Num(n), Null, Garbage;                             *)
(*   - every ADA figure (proposedADA, prevPlannedADA, ...) is held in      *)
(*     hundredths, the resolution toFixed(2) leaves;                       *)
(*   - a date string is a tuple: <<>> is "", <<y, m, d>> is the text       *)
(*     "yyyy-mm-dd" (which need not be a calendar date), <<0>> is a text   *)
(*     that is no date at all;                                             *)
(*   - a Date object is a day number (days since 1970-01-01), or           *)
(*     InvalidDate.                                                        *)
(***************************************************************************)
EXTENDS Integers, Sequences, FiniteSets, TLC

VARIABLES
    rows,             \* useState rows: the live entry list
    startDate,        \* useState startDate: the season start text
    selectedRowId,    \* useState selectedRowId (0 models null)
    depKey,           \* dependency array of the recompute effect at its last run
    nextId,           \* next value crypto.randomUUID() hands out
    draftsByYear,     \* useState draftsByYear
    prevPlannedDict,  \* prevPlannedDictRef.current
    prevActualDict,   \* prevActualDictRef.current
    lastOp,           \* history: the handler that ran last
    lastInput,        \* history: the file, draft and answer that handler was given
    prevRows,         \* history: rows when that handler started
    events,           \* history: number of user events handled so far
    featureByPasture, \* useState featureByPasture
    allFeatures,      \* useState allFeatures
    scene,            \* what StaticMap rendered last
    fnIn,             \* arguments of the pure function under test
    fnOut             \* results of its successive applications

appVars == <<rows, startDate, selectedRowId, depKey, nextId, draftsByYear,
             prevPlannedDict, prevActualDict, lastOp, lastInput, prevRows, events>>
mapVars == <<featureByPasture, allFeatures, scene>>
fnVars == <<fnIn, fnOut>>
vars == <<appVars, mapVars, fnVars>>

----------------------------------------------------------------------------
(* Bounds of the model *)

MaxRows == 3
MaxHerd == 3
MaxDays == 3
MaxAcres == 8
MaxEvents == 2
NumDefaults == 2

----------------------------------------------------------------------------
(* JavaScript values *)

Num(n) == [t |-> "num", v |-> n]
Null == [t |-> "null", v |-> 0]
Garbage == [t |-> "str", v |-> 0]
Infinity == [t |-> "inf", v |-> 0]
NaN == [t |-> "nan", v |-> 0]

Max(a, b) == IF a >= b THEN a ELSE b

\* null, undefined and "" give 0; Number(v) when finite; anything else 0
toNum(x) == IF x.t = "num" THEN x.v ELSE 0

----------------------------------------------------------------------------
(* computeProposedADA *)

\* Math.max(0.000001, a) for an integer a, as the fraction <<numerator, denominator>>
AreaFloorDen == 1000000
floorArea(a) == IF a >= 1 THEN <<a, 1>> ELSE <<1, AreaFloorDen>>

\* +(x.toFixed(2)) for x = n / (area[1] / area[2]), n >= 0, in hundredths:
\* the nearest hundredth, the larger one on a tie; a division by zero gives
\* Infinity, or NaN for 0 / 0.
toFixed2(n, area) ==
    IF area[1] = 0 THEN (IF n = 0 THEN NaN ELSE Infinity)
    ELSE LET scaled == 100 * n * area[2]
             q == scaled \div area[1]
             r == scaled % area[1]
         IN Num(IF 2 * r >= area[1] THEN q + 1 ELSE q)

computeProposedADATruncating(grazingDays, herdSize, acreage) ==
    LET g == Max(0, toNum(grazingDays))
        h == Max(0, toNum(herdSize))
        a == floorArea(toNum(acreage))
    IN Num((100 * g * h * a[2]) \div a[1])

computeProposedADA(grazingDays, herdSize, acreage) ==
    LET g == Max(0, toNum(grazingDays))
        h == Max(0, toNum(herdSize))
        a == floorArea(toNum(acreage))
    IN toFixed2(g * h, a)

----------------------------------------------------------------------------
(* Dates: date-fns parseISO, isValid, format "yyyy-MM-dd", addDays *)

NoDate == <<>>
NotADate == <<0>>
InvalidDate == -1000000

IsLeap(y) == (y % 4 = 0 /\ y % 100 # 0) \/ y % 400 = 0

DaysInMonth(y, m) ==
    IF m = 2 THEN (IF IsLeap(y) THEN 29 ELSE 28)
    ELSE IF m \in {4, 6, 9, 11} THEN 30 ELSE 31

\* leap years in 1 .. y
LeapsThrough(y) == (y \div 4) - (y \div 100) + (y \div 400)

\* days from 1970-01-01 to y-01-01
DaysBeforeYear(y) == 365 * (y - 1970) + LeapsThrough(y - 1) - LeapsThrough(1969)

RECURSIVE DaysBeforeMonth(_, _)
DaysBeforeMonth(y, m) ==
    IF m <= 1 THEN 0 ELSE DaysBeforeMonth(y, m - 1) + DaysInMonth(y, m - 1)

\* parseISO: the Date of a "yyyy-mm-dd" text, InvalidDate for anything else
parseISO(s) ==
    IF Len(s) = 3 /\ s[1] \in 0..9999 /\ s[2] \in 1..12
                  /\ s[3] \in 1..DaysInMonth(s[1], s[2])
    THEN DaysBeforeYear(s[1]) + DaysBeforeMonth(s[1], s[2]) + (s[3] - 1)
    ELSE InvalidDate

isValid(d) == d # InvalidDate

RECURSIVE YearOf(_, _)
YearOf(n, y) == IF DaysBeforeYear(y + 1) <= n THEN YearOf(n, y + 1) ELSE y

RECURSIVE MonthOf(_, _, _)
MonthOf(rest, y, m) ==
    IF rest >= DaysInMonth(y, m) THEN MonthOf(rest - DaysInMonth(y, m), y, m + 1)
    ELSE <<y, m, rest + 1>>

\* format(d, "yyyy-MM-dd") of a valid Date on or after 1970-01-01
format(n) ==
    LET y == YearOf(n, 1970 + (n \div 366))
    IN MonthOf(n - DaysBeforeYear(y), y, 1)

addDays(d, amount) == d + amount

toISOKeepingInvalid(dateStr) ==
    IF dateStr = NoDate THEN NoDate
    ELSE LET d == parseISO(dateStr)
         IN IF isValid(d) THEN format(d) ELSE dateStr

toISO(dateStr) ==
    IF dateStr = NoDate THEN NoDate
    ELSE LET d == parseISO(dateStr)
         IN IF isValid(d) THEN format(d) ELSE NoDate

addDaysISO(iso, days) ==
    LET d == parseISO(iso)
    IN IF ~isValid(d) THEN NoDate ELSE format(addDays(d, days))

----------------------------------------------------------------------------
(* Rows *)

\* the object newRow() returns before its overrides are spread into it
newRow(id) ==
    [id |-> id, pasture |-> "", acreage |-> Num(0), herdSize |-> Num(0),
     prevPlannedADA |-> Null, prevActualADA |-> Null,
     estNativeADA |-> Null, estPerennialADA |-> Null,
     grazingDays |-> Num(0), proposedADA |-> Num(0),
     startDate |-> NoDate, endDate |-> NoDate, notes |-> ""]

\* the loop of recompute over out[i .. ], currentStart being the cursor
RECURSIVE scheduleLoopNoGap(_, _, _)
scheduleLoopNoGap(out, i, currentStart) ==
    IF i > Len(out) THEN out
    ELSE IF currentStart = NoDate
    THEN scheduleLoopNoGap([out EXCEPT ![i].startDate = NoDate, ![i].endDate = NoDate],
                           i + 1, currentStart)
    ELSE LET days == Max(0, toNum(out[i].grazingDays))
             end == IF days > 0 THEN addDaysISO(currentStart, days - 1) ELSE currentStart
         IN scheduleLoopNoGap([out EXCEPT ![i].startDate = currentStart, ![i].endDate = end],
                              i + 1, end)

RECURSIVE scheduleLoopOffByOne(_, _, _)
scheduleLoopOffByOne(out, i, currentStart) ==
    IF i > Len(out) THEN out
    ELSE IF currentStart = NoDate
    THEN scheduleLoopOffByOne([out EXCEPT ![i].startDate = NoDate, ![i].endDate = NoDate],
                              i + 1, currentStart)
    ELSE LET days == Max(0, toNum(out[i].grazingDays))
             end == addDaysISO(currentStart, days)
         IN scheduleLoopOffByOne([out EXCEPT ![i].startDate = currentStart, ![i].endDate = end],
                                 i + 1, addDaysISO(end, 1))

RECURSIVE scheduleLoopStaleEnd(_, _, _)
scheduleLoopStaleEnd(out, i, currentStart) ==
    IF i > Len(out) THEN out
    ELSE IF currentStart = NoDate
    THEN scheduleLoopStaleEnd([out EXCEPT ![i].startDate = NoDate, ![i].endDate = NoDate],
                              i + 1, currentStart)
    ELSE LET days == Max(0, toNum(out[i].grazingDays))
             end == IF days > 0 THEN addDaysISO(currentStart, days - 1) ELSE currentStart
         IN scheduleLoopStaleEnd([out EXCEPT ![i].startDate = currentStart, ![i].endDate = end],
                                 i + 1, addDaysISO(out[i].endDate, 1))

RECURSIVE scheduleLoop(_, _, _)
scheduleLoop(out, i, currentStart) ==
    IF i > Len(out) THEN out
    ELSE IF currentStart = NoDate
    THEN scheduleLoop([out EXCEPT ![i].startDate = NoDate, ![i].endDate = NoDate],
                      i + 1, currentStart)
    ELSE LET days == Max(0, toNum(out[i].grazingDays))
             end == IF days > 0 THEN addDaysISO(currentStart, days - 1) ELSE currentStart
         IN scheduleLoop([out EXCEPT ![i].startDate = currentStart, ![i].endDate = end],
                         i + 1, addDaysISO(end, 1))

recompute(list, planStart) ==
    scheduleLoop(
        [i \in DOMAIN list |->
            [list[i] EXCEPT !.proposedADA =
                computeProposedADA(list[i].grazingDays, list[i].herdSize, list[i].acreage)]],
        1, toISO(planStart))

----------------------------------------------------------------------------
(* Values the variables of a part of the program take while another part is
   the one under study *)

\* a handler given no file, no draft and no confirm() answer
NoInput == [csv |-> <<>>, year |-> 0, id |-> 0, confirmed |-> FALSE]

Unmounted == [mounted |-> FALSE, start |-> NoDate, key |-> <<>>]
NoScene == [rendered |-> FALSE]

AppIdle ==
    /\ rows = <<>>
    /\ startDate = NoDate
    /\ selectedRowId = 0
    /\ depKey = Unmounted
    /\ nextId = 1
    /\ draftsByYear = <<>>
    /\ prevPlannedDict = <<>>
    /\ prevActualDict = <<>>
    /\ lastOp = "none"
    /\ lastInput = NoInput
    /\ prevRows = <<>>
    /\ events = 0

MapIdle ==
    /\ featureByPasture = <<>>
    /\ allFeatures = <<>>
    /\ scene = NoScene

FnIdle ==
    /\ fnIn = <<>>
    /\ fnOut = <<>>

----------------------------------------------------------------------------
(* computeProposedADA as a function of its three arguments *)

DayValues == {Num(n) : n \in -1..MaxDays} \cup {Garbage, Null}
HerdValues == {Num(n) : n \in -1..MaxHerd} \cup {Garbage}
AcreValues == {Num(n) : n \in -1..MaxAcres} \cup {Null}

InitADA ==
    /\ AppIdle
    /\ MapIdle
    /\ fnIn \in [grazingDays : DayValues, herdSize : HerdValues, acreage : AcreValues]
    /\ fnOut = <<>>

CallComputeProposedADA ==
    /\ fnOut = <<>>
    /\ fnOut' = <<computeProposedADA(fnIn.grazingDays, fnIn.herdSize, fnIn.acreage)>>
    /\ UNCHANGED <<fnIn, appVars, mapVars>>

NextADA == CallComputeProposedADA

SpecADA == InitADA /\ [][NextADA]_vars

----------------------------------------------------------------------------
(* recompute as a function of the entry list and the season start *)

\* a stored entry whose derived fields are left over from an earlier plan
StaleDate == <<2020, 1, 1>>
entryWithDays(days) ==
    [newRow(0) EXCEPT !.pasture = "UA-E", !.acreage = Num(4), !.herdSize = Num(2),
                      !.grazingDays = days, !.proposedADA = Num(777),
                      !.startDate = StaleDate, !.endDate = StaleDate]

DurationInputs == {Num(-2), Num(0), Num(1), Num(5), Num(10), Garbage}
StartInputs == {NoDate, NotADate, <<2025, 2, 30>>, <<2025, 3, 1>>,
                <<2024, 2, 27>>, <<2025, 12, 30>>}

EntryLists ==
    UNION {[1..n -> {entryWithDays(d) : d \in DurationInputs}] : n \in 0..MaxRows}

\* entries carry their position as id
numbered(list) == [i \in DOMAIN list |-> [list[i] EXCEPT !.id = i]]

InitRecompute ==
    /\ AppIdle
    /\ MapIdle
    /\ \E list \in EntryLists, s \in StartInputs :
           fnIn = [list |-> numbered(list), planStart |-> s]
    /\ fnOut = <<>>

\* the first call derives from the stored list, the second from the first's result
CallRecompute ==
    /\ fnOut = <<>>
    /\ fnOut' = <<recompute(fnIn.list, fnIn.planStart)>>
    /\ UNCHANGED <<fnIn, appVars, mapVars>>

CallRecomputeAgain ==
    /\ Len(fnOut) = 1
    /\ fnOut' = Append(fnOut, recompute(fnOut[1], fnIn.planStart))
    /\ UNCHANGED <<fnIn, appVars, mapVars>>

NextRecompute == CallRecompute \/ CallRecomputeAgain

SpecRecompute == InitRecompute /\ [][NextRecompute]_vars

----------------------------------------------------------------------------
(* Text: String.prototype.toLowerCase and trim on the texts the model uses *)

toLowerCase(s) ==
    CASE s = "UA-E" -> "ua-e"
      [] s = " UA-E " -> " ua-e "
      [] s = "UA-G" -> "ua-g"
      [] s = "UA-F" -> "ua-f"
      [] s = "11C" -> "11c"
      [] s = "FS Ranger" -> "fs ranger"
      [] s = "11B" -> "11b"
      [] s = "UA-A" -> "ua-a"
      [] s = "UA-C" -> "ua-c"
      [] s = "UA-H" -> "ua-h"
      [] s = "UA-D" -> "ua-d"
      [] s = "140 Trap" -> "140 trap"
      [] s = "HQ" -> "hq"
      [] s = "New Pasture" -> "new pasture"
      [] s = "Nowhere" -> "nowhere"
      [] OTHER -> s

trim(s) ==
    CASE s = " UA-E " -> "UA-E"
      [] s = " ua-e " -> "ua-e"
      [] s = " " -> ""
      [] OTHER -> s

----------------------------------------------------------------------------
(* GrazingPlanner: the state after the first render *)

\* pasture and acreage of the built-in rows, herdSize 110 and grazingDays 0 each
DefaultHerd == 110
defaultPastures ==
    << <<"UA-E", 156>>, <<"UA-G", 441>>, <<"UA-F", 336>>, <<"1", 782>>, <<"8", 815>>,
       <<"11C", 214>>, <<"FS Ranger", 487>>, <<"4", 670>>, <<"11B", 212>>,
       <<"UA-A", 549>>, <<"UA-C", 365>>, <<"UA-H", 453>>, <<"UA-D", 357>>,
       <<"140 Trap", 41>>, <<"HQ", 25>> >>

\* defaultRows of one render, the first NumDefaults of them, ids from firstId on
defaultRows(firstId) ==
    [i \in 1..NumDefaults |->
        [newRow(firstId + i - 1) EXCEPT !.pasture = defaultPastures[i][1],
                                        !.acreage = Num(defaultPastures[i][2]),
                                        !.herdSize = Num(DefaultHerd),
                                        !.grazingDays = Num(0)]]

\* dict?.[key], undefined read as Null
dictGet(dict, key) == IF key \in DOMAIN dict THEN dict[key] ELSE Null

\* a ?? b
orElse(a, b) == IF a.t = "null" THEN b ELSE a

dictPut(dict, key, value) ==
    [k \in DOMAIN dict \cup {key} |-> IF k = key THEN value ELSE dict[k]]

seedPreviousSeasonAndEstimates(list, prevPlanned, prevActual) ==
    [i \in DOMAIN list |->
        [list[i] EXCEPT
            !.prevPlannedADA = orElse(dictGet(prevPlanned, list[i].pasture), list[i].prevPlannedADA),
            !.prevActualADA = orElse(dictGet(prevActual, list[i].pasture), list[i].prevActualADA)]]

\* what localStorage may hold under LAST_PLAN: nothing, or rows an earlier
\* session saved, their derived fields as they were then
storedRow(id, pasture, acreage, herdSize, grazingDays) ==
    [newRow(id) EXCEPT !.pasture = pasture, !.acreage = acreage, !.herdSize = herdSize,
                       !.grazingDays = grazingDays, !.proposedADA = Num(777),
                       !.startDate = StaleDate, !.endDate = StaleDate]

StoredDraftId == 100
storedDraft ==
    [id |-> StoredDraftId, name |-> "", startDate |-> <<2024, 2, 27>>,
     rows |-> << storedRow(StoredDraftId + 1, "UA-F", Num(336), Num(110), Num(2)),
                 storedRow(StoredDraftId + 2, "UA-E", Num(156), Num(110), Num(1)) >>]

laterStoredDraft ==
    [id |-> StoredDraftId + 10, name |-> "", startDate |-> <<2024, 12, 1>>,
     rows |-> << storedRow(StoredDraftId + 11, "UA-G", Num(441), Num(110), Num(3)) >>]

\* what localStorage may hold when the page loads: the season start, the saved
\* rows, the previous-season planned dictionary and the drafts
StoredSessions ==
    { [start |-> NoDate, plan |-> <<>>, planned |-> <<>>, drafts |-> <<>>],
      [start |-> <<2025, 3, 1>>, planned |-> [k \in {"UA-E"} |-> Num(1250)],
       drafts |-> [y \in {2024} |-> <<storedDraft>>],
       plan |-> << storedRow(1, "UA-E", Num(156), Num(110), Num(10)),
                   storedRow(2, "UA-G", Num(441), Num(110), Num(0)),
                   storedRow(3, "ua-e", Num(8), Num(1), Num(5)) >>],
      [start |-> <<2025, 2, 30>>, planned |-> <<>>, drafts |-> <<>>,
       plan |-> << storedRow(1, "UA-G", Null, Garbage, Garbage),
                   storedRow(2, "UA-E", Num(156), Num(110), Num(2)) >>],
      [start |-> <<2025, 12, 30>>, planned |-> <<>>,
       drafts |-> [y \in {2024} |-> <<storedDraft, laterStoredDraft>>],
       plan |-> << storedRow(1, "UA-E", Num(156), Num(110), Num(3)) >>] }

loadRows(stored) == IF Len(stored) > 0 THEN stored ELSE defaultRows(1)

InitApp ==
    \E stored \in StoredSessions :
        /\ startDate = stored.start
        /\ prevPlannedDict = stored.planned
        /\ prevActualDict = <<>>
        /\ selectedRowId = 0
        /\ draftsByYear = stored.drafts
        /\ rows = seedPreviousSeasonAndEstimates(loadRows(stored.plan), stored.planned, <<>>)
        /\ nextId = Len(loadRows(stored.plan)) + 1
        /\ depKey = Unmounted
        /\ lastOp = "mount"
        /\ lastInput = NoInput
        /\ prevRows = <<>>
        /\ events = 0

Init ==
    /\ InitApp
    /\ MapIdle
    /\ FnIdle

----------------------------------------------------------------------------
(* The recompute effect *)

\* the effect's dependency array
DepKeyWithNotes(list, start) ==
    [mounted |-> TRUE, start |-> start,
     key |-> [i \in DOMAIN list |->
                 <<list[i].id, list[i].pasture, list[i].acreage, list[i].herdSize,
                   list[i].grazingDays, list[i].notes>>]]

DepKeyWithDerivedFields(list, start) ==
    [mounted |-> TRUE, start |-> start,
     key |-> [i \in DOMAIN list |->
                 <<list[i].id, list[i].pasture, list[i].acreage, list[i].herdSize,
                   list[i].grazingDays, list[i].proposedADA, list[i].startDate,
                   list[i].endDate>>]]

DepKeyWithoutDays(list, start) ==
    [mounted |-> TRUE, start |-> start,
     key |-> [i \in DOMAIN list |->
                 <<list[i].id, list[i].pasture, list[i].acreage, list[i].herdSize>>]]

DepKey(list, start) ==
    [mounted |-> TRUE, start |-> start,
     key |-> [i \in DOMAIN list |->
                 <<list[i].id, list[i].pasture, list[i].acreage, list[i].herdSize,
                   list[i].grazingDays>>]]

\* the dependencies differ from those of the effect's last run
EffectPending == depKey # DepKey(rows, startDate)

RecomputeEffect ==
    /\ EffectPending
    /\ depKey' = DepKey(rows, startDate)
    /\ LET recomputed == recompute(rows, startDate)
           changed == rows # recomputed
       IN rows' = IF changed THEN recomputed ELSE rows
    /\ UNCHANGED <<startDate, selectedRowId, nextId, draftsByYear, prevPlannedDict,
                   prevActualDict, lastOp, lastInput, prevRows, events, mapVars, fnVars>>

----------------------------------------------------------------------------
(* Event handlers. React runs a pending effect before it handles the next
   event, so a handler starts from a state in which no effect is pending. *)

Ids(list) == {list[i].id : i \in DOMAIN list}
findIndex(list, id) ==
    IF id \in Ids(list) THEN CHOOSE i \in DOMAIN list :
                                 /\ list[i].id = id
                                 /\ \A j \in 1..(i - 1) : list[j].id # id
    ELSE 0

Handled(op, input) ==
    /\ ~EffectPending
    /\ events < MaxEvents
    /\ events' = events + 1
    /\ lastOp' = op
    /\ lastInput' = input
    /\ prevRows' = rows

\* <input type="date" onChange>
DateInputs == {NoDate, <<2025, 3, 1>>}
setSeasonStart ==
    \E value \in DateInputs :
        /\ Handled("setStartDate", NoInput)
        /\ startDate' = toISO(value)
        /\ UNCHANGED <<rows, selectedRowId, depKey, nextId, draftsByYear, prevPlannedDict,
                       prevActualDict, mapVars, fnVars>>

PastureInputs == {"ua-e"}
NotesInputs == {"wet"}
HerdInputs == {Num(MaxHerd)}
DaysInputs == {Num(0), Num(MaxDays)}

\* the patches SortableRow passes to onChange
Patches ==
    {[field |-> "pasture", text |-> v, num |-> Null] : v \in PastureInputs}
    \cup {[field |-> "notes", text |-> v, num |-> Null] : v \in NotesInputs}
    \cup {[field |-> "herdSize", text |-> "", num |-> v] : v \in HerdInputs}
    \cup {[field |-> "grazingDays", text |-> "", num |-> v] : v \in DaysInputs}

patched(r, patch) ==
    CASE patch.field = "pasture" -> [r EXCEPT !.pasture = patch.text]
      [] patch.field = "notes" -> [r EXCEPT !.notes = patch.text]
      [] patch.field = "herdSize" -> [r EXCEPT !.herdSize = patch.num]
      [] patch.field = "grazingDays" -> [r EXCEPT !.grazingDays = patch.num]

updateRow ==
    \E id \in Ids(rows), patch \in Patches :
        /\ Handled(patch.field, NoInput)
        /\ rows' = [i \in DOMAIN rows |->
                       IF rows[i].id = id THEN patched(rows[i], patch) ELSE rows[i]]
        /\ UNCHANGED <<startDate, selectedRowId, depKey, nextId, draftsByYear,
                       prevPlannedDict, prevActualDict, mapVars, fnVars>>

deleteRow ==
    \E id \in Ids(rows) :
        /\ Handled("deleteRow", NoInput)
        /\ rows' = SelectSeq(rows, LAMBDA r : r.id # id)
        /\ UNCHANGED <<startDate, selectedRowId, depKey, nextId, draftsByYear,
                       prevPlannedDict, prevActualDict, mapVars, fnVars>>

duplicatedKeepingId(prev, id, freshId) ==
    LET idx == findIndex(prev, id)
    IN IF idx = 0 THEN prev
       ELSE SubSeq(prev, 1, idx) \o <<prev[idx]>> \o SubSeq(prev, idx + 1, Len(prev))

duplicated(prev, id, freshId) ==
    LET idx == findIndex(prev, id)
    IN IF idx = 0 THEN prev
       ELSE SubSeq(prev, 1, idx) \o <<[prev[idx] EXCEPT !.id = freshId]>>
            \o SubSeq(prev, idx + 1, Len(prev))

\* the row's copy button or a double click
duplicateRow ==
    \E id \in Ids(rows) :
        /\ Len(rows) < MaxRows
        /\ Handled("duplicateRow", [NoInput EXCEPT !.id = id])
        /\ rows' = duplicated(rows, id, nextId)
        /\ nextId' = nextId + 1
        /\ UNCHANGED <<startDate, selectedRowId, depKey, draftsByYear, prevPlannedDict,
                       prevActualDict, mapVars, fnVars>>

\* the selected row may have been deleted since it was selected
copySelectedRow ==
    /\ selectedRowId # 0
    /\ Len(rows) < MaxRows
    /\ Handled("copySelectedRow", [NoInput EXCEPT !.id = selectedRowId])
    /\ rows' = duplicated(rows, selectedRowId, nextId)
    /\ nextId' = nextId + 1
    /\ UNCHANGED <<startDate, selectedRowId, depKey, draftsByYear, prevPlannedDict,
                   prevActualDict, mapVars, fnVars>>

selectRow ==
    \E id \in Ids(rows) :
        /\ Handled("selectRow", NoInput)
        /\ selectedRowId' = id
        /\ UNCHANGED <<rows, startDate, depKey, nextId, draftsByYear, prevPlannedDict,
                       prevActualDict, mapVars, fnVars>>

addEmptyRow ==
    /\ Len(rows) < MaxRows
    /\ Handled("addEmptyRow", NoInput)
    /\ rows' = Append(rows, [newRow(nextId) EXCEPT !.pasture = "New Pasture"])
    /\ nextId' = nextId + 1
    /\ UNCHANGED <<startDate, selectedRowId, depKey, draftsByYear, prevPlannedDict,
                   prevActualDict, mapVars, fnVars>>

clearTable ==
    \E confirmed \in BOOLEAN :
        /\ Handled("clearTable", [NoInput EXCEPT !.confirmed = confirmed])
        /\ IF confirmed
           THEN /\ rows' = <<newRow(nextId)>>
                /\ nextId' = nextId + 1
                /\ selectedRowId' = 0
           ELSE UNCHANGED <<rows, nextId, selectedRowId>>
        /\ UNCHANGED <<startDate, depKey, draftsByYear, prevPlannedDict, prevActualDict,
                       mapVars, fnVars>>

restoreDefaults ==
    \E confirmed \in BOOLEAN :
        /\ Handled("restoreDefaults", [NoInput EXCEPT !.confirmed = confirmed])
        /\ IF confirmed
           THEN /\ rows' = seedPreviousSeasonAndEstimates(defaultRows(nextId),
                                                           prevPlannedDict, prevActualDict)
                /\ nextId' = nextId + NumDefaults
                /\ selectedRowId' = 0
           ELSE UNCHANGED <<rows, nextId, selectedRowId>>
        /\ UNCHANGED <<startDate, depKey, draftsByYear, prevPlannedDict, prevActualDict,
                       mapVars, fnVars>>

\* @dnd-kit arrayMove: take the element at from out and put it in at to
arrayMoveOverwriting(array, from, to) == [array EXCEPT ![to] = array[from]]

arrayMove(array, from, to) ==
    LET without == SubSeq(array, 1, from - 1) \o SubSeq(array, from + 1, Len(array))
    IN SubSeq(without, 1, to - 1) \o <<array[from]>> \o SubSeq(without, to, Len(without))

\* over is null (0) when the row is dropped outside the list
handleDragEnd ==
    \E active \in Ids(rows), over \in Ids(rows) \cup {0} :
        /\ Handled("handleDragEnd", NoInput)
        /\ IF over = 0 \/ active = over
           THEN UNCHANGED rows
           ELSE rows' = arrayMove(rows, findIndex(rows, active), findIndex(rows, over))
        /\ UNCHANGED <<startDate, selectedRowId, depKey, nextId, draftsByYear,
                       prevPlannedDict, prevActualDict, mapVars, fnVars>>

----------------------------------------------------------------------------
(* CSV imports. A CSV arrives parsed, its pasture column and its two value
   columns found by the header patterns; a missing cell is Null. *)

EstimateCSVs ==
    { << [pasture |-> "ua-e", native |-> Num(1200), perennial |-> Null] >>,
      << [pasture |-> "Nowhere", native |-> Num(500), perennial |-> Num(600)],
         [pasture |-> " ", native |-> Num(1), perennial |-> Num(2)] >> }

PreviousCSVs ==
    { << [pasture |-> " UA-E ", planned |-> Num(900), actual |-> Num(850)] >>,
      << [pasture |-> "Nowhere", planned |-> Num(300), actual |-> Null] >>,
      << [pasture |-> "ua-g", planned |-> Num(700), actual |-> Null] >> }

\* lookup after the loop: the last CSV row of each lower-cased, trimmed name
estimateLookup(rowsFromCSV) ==
    LET named == {i \in DOMAIN rowsFromCSV : trim(rowsFromCSV[i].pasture) # ""}
        keyOf(i) == toLowerCase(trim(rowsFromCSV[i].pasture))
        last(k) == CHOOSE i \in named : keyOf(i) = k /\ \A j \in named : keyOf(j) = k => j <= i
    IN [k \in {keyOf(i) : i \in named} |->
           [estNativeADA |-> rowsFromCSV[last(k)].native,
            estPerennialADA |-> rowsFromCSV[last(k)].perennial]]

mergeEstimatesClearing(prev, lookup) ==
    [i \in DOMAIN prev |->
        IF toLowerCase(prev[i].pasture) \in DOMAIN lookup
        THEN [prev[i] EXCEPT
                 !.estNativeADA = lookup[toLowerCase(prev[i].pasture)].estNativeADA,
                 !.estPerennialADA = lookup[toLowerCase(prev[i].pasture)].estPerennialADA]
        ELSE [prev[i] EXCEPT !.estNativeADA = Null, !.estPerennialADA = Null]]

\* prev.map(r => hit ? { ...r, ...hit } : r)
mergeEstimates(prev, lookup) ==
    [i \in DOMAIN prev |->
        IF toLowerCase(prev[i].pasture) \in DOMAIN lookup
        THEN [prev[i] EXCEPT
                 !.estNativeADA = lookup[toLowerCase(prev[i].pasture)].estNativeADA,
                 !.estPerennialADA = lookup[toLowerCase(prev[i].pasture)].estPerennialADA]
        ELSE prev[i]]

applyEstimatesFromCSV ==
    \E rowsFromCSV \in EstimateCSVs :
        /\ Handled("applyEstimatesFromCSV", [NoInput EXCEPT !.csv = rowsFromCSV])
        /\ rows' = mergeEstimates(rows, estimateLookup(rowsFromCSV))
        /\ UNCHANGED <<startDate, selectedRowId, depKey, nextId, draftsByYear,
                       prevPlannedDict, prevActualDict, mapVars, fnVars>>

\* the loop over the CSV rows from row i on, for one of the two columns
RECURSIVE mergeColumn(_, _, _, _)
mergeColumn(dict, rowsFromCSV, i, column) ==
    IF i > Len(rowsFromCSV) THEN dict
    ELSE LET p == trim(rowsFromCSV[i].pasture)
             value == IF column = "planned" THEN rowsFromCSV[i].planned
                      ELSE rowsFromCSV[i].actual
         IN mergeColumn(IF p # "" /\ value.t # "null" THEN dictPut(dict, p, value) ELSE dict,
                        rowsFromCSV, i + 1, column)

applyPreviousSeasonFromCSV ==
    \E rowsFromCSV \in PreviousCSVs :
        /\ Handled("applyPreviousSeasonFromCSV", [NoInput EXCEPT !.csv = rowsFromCSV])
        /\ prevPlannedDict' = mergeColumn(prevPlannedDict, rowsFromCSV, 1, "planned")
        /\ prevActualDict' = mergeColumn(prevActualDict, rowsFromCSV, 1, "actual")
        /\ rows' = seedPreviousSeasonAndEstimates(rows, prevPlannedDict', prevActualDict')
        /\ UNCHANGED <<startDate, selectedRowId, depKey, nextId, draftsByYear, mapVars,
                       fnVars>>

plannedFromRowsKeeping(dict, list, i) == dict

RECURSIVE plannedFromRows(_, _, _)
plannedFromRows(dict, list, i) ==
    IF i > Len(list) THEN dict
    ELSE plannedFromRows(IF list[i].pasture # ""
                         THEN dictPut(dict, list[i].pasture, list[i].proposedADA)
                         ELSE dict,
                         list, i + 1)

saveCurrentAsPrevPlanned ==
    /\ Handled("saveCurrentAsPrevPlanned", NoInput)
    /\ prevPlannedDict' = plannedFromRows(prevPlannedDict, rows, 1)
    /\ rows' = seedPreviousSeasonAndEstimates(rows, prevPlannedDict', prevActualDict)
    /\ UNCHANGED <<startDate, selectedRowId, depKey, nextId, draftsByYear, prevActualDict,
                   mapVars, fnVars>>

----------------------------------------------------------------------------
(* Drafts. A draft's name is always "" and its timestamp is not modelled. *)

\* new Date().getFullYear()
CurrentYear == 2026

\* the year key: the first four characters of startDate when they are digits
draftYear(start) == IF Len(start) = 3 THEN start[1] ELSE CurrentYear

draftsOf(drafts, year) == IF year \in DOMAIN drafts THEN drafts[year] ELSE <<>>

handleSaveDraft ==
    /\ Handled("handleSaveDraft", NoInput)
    /\ LET y == draftYear(startDate)
           draft == [id |-> nextId, name |-> "", startDate |-> startDate, rows |-> rows]
       IN draftsByYear' = dictPut(draftsByYear, y, Append(draftsOf(draftsByYear, y), draft))
    /\ nextId' = nextId + 1
    /\ UNCHANGED <<rows, startDate, selectedRowId, depKey, prevPlannedDict, prevActualDict,
                   mapVars, fnVars>>

DraftIds(drafts, year) == {draftsOf(drafts, year)[i].id : i \in DOMAIN draftsOf(drafts, year)}

withStoredIds(list, firstId) == list

\* the rows of a loaded draft, each under a new id
withFreshIds(list, firstId) == [i \in DOMAIN list |-> [list[i] EXCEPT !.id = firstId + i - 1]]

\* id 0 stands for an id no draft of that year has
handleLoadDraft ==
    \E year \in DOMAIN draftsByYear : \E id \in DraftIds(draftsByYear, year) \cup {0},
                                        confirmed \in BOOLEAN :
        /\ Handled("handleLoadDraft", [NoInput EXCEPT !.year = year, !.id = id,
                                               !.confirmed = confirmed])
        /\ IF id # 0 /\ confirmed
           THEN LET arr == draftsByYear[year]
                    d == arr[CHOOSE i \in DOMAIN arr : arr[i].id = id]
                IN /\ rows' = withFreshIds(d.rows, nextId)
                   /\ nextId' = nextId + Len(d.rows)
                   /\ startDate' = d.startDate
                   /\ selectedRowId' = 0
           ELSE UNCHANGED <<rows, nextId, startDate, selectedRowId>>
        /\ UNCHANGED <<depKey, draftsByYear, prevPlannedDict, prevActualDict, mapVars,
                       fnVars>>

handleDeleteDraftWholeYear ==
    \E year \in DOMAIN draftsByYear : \E id \in DraftIds(draftsByYear, year),
                                        confirmed \in BOOLEAN :
        /\ Handled("handleDeleteDraft", [NoInput EXCEPT !.year = year, !.id = id,
                                               !.confirmed = confirmed])
        /\ IF confirmed
           THEN draftsByYear' = [y \in DOMAIN draftsByYear \ {year} |-> draftsByYear[y]]
           ELSE UNCHANGED draftsByYear
        /\ UNCHANGED <<rows, startDate, selectedRowId, depKey, nextId, prevPlannedDict,
                       prevActualDict, mapVars, fnVars>>

handleDeleteDraft ==
    \E year \in DOMAIN draftsByYear : \E id \in DraftIds(draftsByYear, year),
                                        confirmed \in BOOLEAN :
        /\ Handled("handleDeleteDraft", [NoInput EXCEPT !.year = year, !.id = id,
                                               !.confirmed = confirmed])
        /\ IF confirmed
           THEN LET kept == SelectSeq(draftsByYear[year], LAMBDA d : d.id # id)
                IN draftsByYear' =
                       IF kept = <<>>
                       THEN [y \in DOMAIN draftsByYear \ {year} |-> draftsByYear[y]]
                       ELSE [draftsByYear EXCEPT ![year] = kept]
           ELSE UNCHANGED draftsByYear
        /\ UNCHANGED <<rows, startDate, selectedRowId, depKey, nextId, prevPlannedDict,
                       prevActualDict, mapVars, fnVars>>

----------------------------------------------------------------------------
(* The planner *)

Next ==
    \/ RecomputeEffect
    \/ setSeasonStart
    \/ updateRow
    \/ deleteRow
    \/ duplicateRow
    \/ copySelectedRow
    \/ selectRow
    \/ addEmptyRow
    \/ clearTable
    \/ restoreDefaults
    \/ handleDragEnd
    \/ applyEstimatesFromCSV
    \/ applyPreviousSeasonFromCSV
    \/ saveCurrentAsPrevPlanned
    \/ handleSaveDraft
    \/ handleLoadDraft
    \/ handleDeleteDraft

Spec == Init /\ [][Next]_vars

\* React runs an effect whose dependencies changed after the render that
\* changed them
\* changed them; a step that brings depKey up to date is a run of the effect
EffectRuns == EffectPending /\ depKey' = DepKey(rows, startDate)

SpecEffectRuns == Spec /\ WF_depKey(EffectRuns)

----------------------------------------------------------------------------
(* The map. A feature is its name property as written in the file (label, ""
   when it has none) and the centre of mass of its geometry (center); every
   feature carries a Polygon or MultiPolygon geometry. An anchor keeps that
   centre; the drawing coordinates are not modelled here. *)

feature(label, lng, lat) == [label |-> label, center |-> <<lng, lat>>]

GeoFiles ==
    { << feature(" UA-E ", 10, 40), feature("UA-G", 20, 40), feature("Nowhere", 30, 50) >>,
      << feature("ua-g", 20, 45), feature("", 0, 0) >>,
      << feature("New Pasture", 15, 42), feature("ua-e", 11, 41), feature("UA-E", 12, 41) >> }

\* byName after the loop: the last feature of each lower-cased, trimmed name
byNameOf(features) ==
    LET named == {i \in DOMAIN features : trim(features[i].label) # ""}
        keyOf(i) == toLowerCase(trim(features[i].label))
        last(k) == CHOOSE i \in named : keyOf(i) = k /\ \A j \in named : keyOf(j) = k => j <= i
    IN [k \in {keyOf(i) : i \in named} |-> features[last(k)]]

\* feats after the loop: the named features, in file order
featsOf(features) == SelectSeq(features, LAMBDA f : trim(f.label) # "")

\* rows.map(r => featureByPasture[lower(r.pasture)]).filter(Boolean), or allFeatures
RECURSIVE picked(_, _)
picked(list, byName) ==
    IF list = <<>> THEN <<>>
    ELSE (IF toLowerCase(Head(list).pasture) \in DOMAIN byName
          THEN <<byName[toLowerCase(Head(list).pasture)]>> ELSE <<>>)
         \o picked(Tail(list), byName)

featuresToDraw(list, byName, all) ==
    IF picked(list, byName) # <<>> THEN picked(list, byName) ELSE all

activeRowsIncludingZero(list) == SelectSeq(list, LAMBDA r : toNum(r.grazingDays) >= 0)

\* (Number(r.grazingDays) || 0) > 0
activeRows(list) == SelectSeq(list, LAMBDA r : toNum(r.grazingDays) > 0)

RECURSIVE anchorsOf(_, _)
anchorsOf(active, byName) ==
    IF active = <<>> THEN <<>>
    ELSE (IF toLowerCase(Head(active).pasture) \in DOMAIN byName
          THEN <<[name |-> Head(active).pasture,
                  center |-> byName[toLowerCase(Head(active).pasture)].center]>>
          ELSE <<>>)
         \o anchorsOf(Tail(active), byName)

routeAnchors(list, byName) == anchorsOf(activeRows(list), byName)

routeNameSet(anchors) == {toLowerCase(anchors[i].name) : i \in DOMAIN anchors}

RECURSIVE nonRouteLabels(_, _)
nonRouteLabels(features, names) ==
    IF features = <<>> THEN <<>>
    ELSE (IF Head(features).label = "" \/ toLowerCase(Head(features).label) \in names
          THEN <<>>
          ELSE <<[text |-> Head(features).label, center |-> Head(features).center]>>)
         \o nonRouteLabels(Tail(features), names)

\* the arrow of segment i starts SHIFT_FROM_TEXT pixels from anchor i on the
\* line to anchor i + 1; from and to are the two anchors
segmentsNumberedFromZero(anchors) ==
    [i \in 1..(Len(anchors) - 1) |->
        [key |-> i - 1, num |-> i - 1, from |-> anchors[i], to |-> anchors[i + 1]]]

segments(anchors) ==
    [i \in 1..(Len(anchors) - 1) |->
        [key |-> i - 1, num |-> i, from |-> anchors[i], to |-> anchors[i + 1]]]

StaticMap(list, byName, all) ==
    LET features == featuresToDraw(list, byName, all)
        anchors == routeAnchors(list, byName)
    IN IF features = <<>>
       THEN [placeholder |-> TRUE, features |-> <<>>, routeAnchors |-> <<>>,
             nonRouteLabels |-> <<>>, segments |-> <<>>]
       ELSE [placeholder |-> FALSE, features |-> features, routeAnchors |-> anchors,
             nonRouteLabels |-> nonRouteLabels(features, routeNameSet(anchors)),
             segments |-> segments(anchors)]

\* the entry lists the map is drawn for
MapEntries ==
    { [newRow(0) EXCEPT !.pasture = e[1], !.grazingDays = e[2]] :
          e \in { <<"UA-E", Num(5)>>, <<"UA-E", Garbage>>, <<"UA-G", Num(0)>>,
                  <<"UA-G", Num(1)>>, <<"ua-e", Num(1)>>, <<"New Pasture", Num(3)>>,
                  <<" UA-E ", Num(1)>> } }

InitMap ==
    /\ \E list \in UNION {[1..n -> MapEntries] : n \in 0..MaxRows} :
           /\ rows = numbered(list)
           /\ nextId = Len(list) + 1
    /\ startDate = NoDate
    /\ selectedRowId = 0
    /\ depKey = DepKey(rows, startDate)
    /\ draftsByYear = <<>>
    /\ prevPlannedDict = <<>>
    /\ prevActualDict = <<>>
    /\ lastOp = "mount"
    /\ lastInput = NoInput
    /\ prevRows = <<>>
    /\ events = 0
    /\ featureByPasture = <<>>
    /\ allFeatures = <<>>
    /\ scene = StaticMap(rows, featureByPasture, allFeatures)
    /\ FnIdle

\* reader.onload of a FeatureCollection, and the render that follows
onGeoFileChange ==
    \E gj \in GeoFiles :
        /\ featureByPasture' = byNameOf(gj)
        /\ allFeatures' = featsOf(gj)
        /\ scene' = StaticMap(rows, featureByPasture', allFeatures')
        /\ UNCHANGED <<appVars, fnVars>>

NextMap == onGeoFileChange

SpecMap == InitMap /\ [][NextMap]_vars

----------------------------------------------------------------------------
(* The calendar, stated without day numbers *)

IsCalendarDate(s) ==
    Len(s) = 3 /\ s[2] \in 1..12 /\ s[3] \in 1..DaysInMonth(s[1], s[2])

NextDay(s) ==
    IF s[3] < DaysInMonth(s[1], s[2]) THEN <<s[1], s[2], s[3] + 1>>
    ELSE IF s[2] < 12 THEN <<s[1], s[2] + 1, 1>>
    ELSE <<s[1] + 1, 1, 1>>

RECURSIVE PlusDays(_, _)
PlusDays(s, n) == IF n <= 0 THEN s ELSE PlusDays(NextDay(s), n - 1)

\* the grazing duration an entry counts for: negative and non-numeric count as 0
Duration(entry) ==
    IF entry.grazingDays.t = "num" /\ entry.grazingDays.v > 0
    THEN entry.grazingDays.v ELSE 0

Datelines(list) == [i \in DOMAIN list |-> <<list[i].startDate, list[i].endDate>>]

----------------------------------------------------------------------------
(* Claims about recompute, under SpecRecompute *)

\* C1: with a valid season start, the first entry starts on the season start
\* and every later entry starts on the calendar day after the end of the
\* entry before it.
C1_Sequencing ==
    \A k \in DOMAIN fnOut :
        IsCalendarDate(fnIn.planStart) =>
            /\ Len(fnOut[k]) > 0 => fnOut[k][1].startDate = fnIn.planStart
            /\ \A i \in 2..Len(fnOut[k]) :
                   /\ IsCalendarDate(fnOut[k][i - 1].endDate)
                   /\ fnOut[k][i].startDate = NextDay(fnOut[k][i - 1].endDate)

C1_Witness ==
    /\ Len(fnOut) >= 1
    /\ fnIn.planStart = <<2024, 2, 27>>
    /\ Len(fnOut[1]) >= 2
    /\ fnOut[1][1].endDate = <<2024, 3, 2>>
    /\ fnOut[1][2].startDate = <<2024, 3, 3>>

\* C2: with a valid season start, an entry of duration d > 0 ends d - 1 days
\* after it starts; an entry of duration 0 (also a negative or non-numeric one)
\* ends the day it starts, and the entry after it starts the day after. Season
\* start 2025-03-01 with durations 10, 0, 5 gives 03-01..03-10, 03-11..03-11,
\* 03-12..03-16.
C2_EndDateRule ==
    \A k \in DOMAIN fnOut :
        IsCalendarDate(fnIn.planStart) =>
            /\ \A i \in DOMAIN fnOut[k] :
                   /\ IsCalendarDate(fnOut[k][i].startDate)
                   /\ Duration(fnIn.list[i]) > 0 =>
                          fnOut[k][i].endDate =
                              PlusDays(fnOut[k][i].startDate, Duration(fnIn.list[i]) - 1)
                   /\ Duration(fnIn.list[i]) = 0 =>
                          /\ fnOut[k][i].endDate = fnOut[k][i].startDate
                          /\ i < Len(fnOut[k]) =>
                                 fnOut[k][i + 1].startDate = NextDay(fnOut[k][i].startDate)
            /\ ( /\ fnIn.planStart = <<2025, 3, 1>>
                 /\ [i \in DOMAIN fnIn.list |-> fnIn.list[i].grazingDays]
                        = <<Num(10), Num(0), Num(5)>> )
               => Datelines(fnOut[k]) = << <<(<<2025, 3, 1>>), (<<2025, 3, 10>>)>>,
                                           <<(<<2025, 3, 11>>), (<<2025, 3, 11>>)>>,
                                           <<(<<2025, 3, 12>>), (<<2025, 3, 16>>)>> >>

C2_Witness ==
    /\ Len(fnOut) >= 1
    /\ fnIn.planStart = <<2025, 3, 1>>
    /\ [i \in DOMAIN fnIn.list |-> fnIn.list[i].grazingDays] = <<Num(10), Num(0), Num(5)>>
    /\ Datelines(fnOut[1]) = << <<(<<2025, 3, 1>>), (<<2025, 3, 10>>)>>,
                                <<(<<2025, 3, 11>>), (<<2025, 3, 11>>)>>,
                                <<(<<2025, 3, 12>>), (<<2025, 3, 16>>)>> >>

\* C4: with an empty or unparsable season start every entry gets an empty
\* start and end date, and its proposedADA is still the one its own
\* grazing days, herd size and acreage give.
C4_InvalidStartDegrades ==
    \A k \in DOMAIN fnOut :
        ~IsCalendarDate(fnIn.planStart) =>
            /\ Len(fnOut[k]) = Len(fnIn.list)
            /\ \A i \in DOMAIN fnOut[k] :
                   /\ fnOut[k][i].startDate = NoDate
                   /\ fnOut[k][i].endDate = NoDate
                   /\ fnOut[k][i].proposedADA =
                          computeProposedADA(fnIn.list[i].grazingDays,
                                             fnIn.list[i].herdSize, fnIn.list[i].acreage)

C4_Witness ==
    /\ Len(fnOut) >= 1
    /\ fnIn.planStart = <<2025, 2, 30>>
    /\ Len(fnOut[1]) = 2
    /\ fnIn.list[2].grazingDays = Num(5)
    /\ fnOut[1][2].startDate = NoDate
    /\ fnOut[1][2].proposedADA = Num(250)

\* C6: deriving again from a derived list, with the same season start, gives
\* the same list field for field.
C6_Idempotent ==
    Len(fnOut) = 2 => fnOut[2] = fnOut[1]

C6_Witness ==
    /\ Len(fnOut) = 2
    /\ IsCalendarDate(fnIn.planStart)
    /\ Len(fnOut[1]) >= 2
    /\ fnOut[1] # fnIn.list
    /\ fnOut[2][2].startDate # StaleDate

----------------------------------------------------------------------------
(* Claims about computeProposedADA, under SpecADA *)

\* C7: for days d >= 0, herd h >= 0 and acreage a > 0 the result is d * h / a
\* rounded to the nearest hundredth (a tie upwards); for acreage 0 the divisor
\* is the positive floor 0.000001, so the result is a finite number.
C7_StockingDensity ==
    \A k \in DOMAIN fnOut :
        LET d == fnIn.grazingDays.v
            h == fnIn.herdSize.v
            a == fnIn.acreage.v
            r == fnOut[k].v
        IN ( /\ fnIn.grazingDays.t = "num" /\ d >= 0
             /\ fnIn.herdSize.t = "num" /\ h >= 0
             /\ fnIn.acreage.t = "num" /\ a >= 0 )
           => /\ fnOut[k].t = "num"
              /\ a > 0 => /\ 2 * r * a <= 200 * d * h + a
                          /\ 200 * d * h + a < 2 * r * a + 2 * a
              /\ a = 0 => r = 100 * d * h * 1000000

C7_Witness ==
    /\ fnOut = <<Num(13)>>
    /\ fnIn.grazingDays = Num(1)
    /\ fnIn.herdSize = Num(1)
    /\ fnIn.acreage = Num(8)

----------------------------------------------------------------------------
(* Claims about the planner, under Spec *)

DerivedFields(r) == <<r.proposedADA, r.startDate, r.endDate>>
OwnFields(r) ==
    <<r.id, r.pasture, r.acreage, r.herdSize, r.grazingDays, r.notes, r.prevPlannedADA,
      r.prevActualADA, r.estNativeADA, r.estPerennialADA, r.proposedADA>>

\* C3: once the recompute effect has run, every entry's proposedADA, startDate
\* and endDate are the ones recompute gives for the current order, season
\* start and inputs, whatever handlers ran before.
C3_DerivedFieldsCurrent ==
    ~EffectPending =>
        /\ Len(recompute(rows, startDate)) = Len(rows)
        /\ \A i \in DOMAIN rows :
               DerivedFields(rows[i]) = DerivedFields(recompute(rows, startDate)[i])

C3_Witness ==
    /\ ~EffectPending
    /\ lastOp = "grazingDays"
    /\ Len(rows) = 3
    /\ Len(prevRows) = 3
    /\ rows[1].endDate # prevRows[1].endDate
    /\ rows[3].startDate # prevRows[3].startDate
    /\ rows[3].startDate # NoDate

\* C5: after a drag and the recomputation that follows it, the list holds the
\* same entries as before the drag, each with its id, inputs, carried-over
\* figures and proposedADA unchanged; with a valid season start the dates follow
\* the sequencing rule in the new order.
C5_ReorderKeepsEntries ==
    (lastOp = "handleDragEnd" /\ ~EffectPending) =>
        /\ Len(rows) = Len(prevRows)
        /\ \A j \in DOMAIN prevRows :
               Cardinality({i \in DOMAIN rows : OwnFields(rows[i]) = OwnFields(prevRows[j])}) = 1
        /\ IsCalendarDate(startDate) =>
               /\ Len(rows) > 0 => rows[1].startDate = startDate
               /\ \A i \in 2..Len(rows) : rows[i].startDate = NextDay(rows[i - 1].endDate)

C5_Witness ==
    /\ lastOp = "handleDragEnd"
    /\ ~EffectPending
    /\ IsCalendarDate(startDate)
    /\ Len(rows) = 3
    /\ rows[1].id = prevRows[3].id
    /\ rows[1].proposedADA = prevRows[3].proposedADA
    /\ rows[1].startDate # prevRows[3].startDate
    /\ rows[2].startDate = NextDay(rows[1].endDate)

\* what recompute reads of the list, and the order of the entries
InputKey(list) ==
    [i \in DOMAIN list |-> <<list[i].id, list[i].acreage, list[i].herdSize, list[i].grazingDays>>]

\* a step of an event handler
HandlerStep == events' = events + 1

\* C8 (as amended): a handler that changes the season start, an entry's
\* acreage, herdSize or grazingDays, or the order or membership of the list
\* leaves the recompute effect pending; so does an edit that changes a pasture
\* name; an edit of notes does not.
C8_Triggering ==
    [][HandlerStep =>
          /\ (startDate' # startDate \/ InputKey(rows') # InputKey(rows)) => EffectPending'
          /\ (lastOp' = "pasture" /\ rows' # rows) => EffectPending'
          /\ lastOp' = "notes" => ~EffectPending']_vars

C8_Witness ==
    /\ lastOp = "notes"
    /\ ~EffectPending
    /\ rows # prevRows
    /\ depKey.mounted

\* C8 (as claimed): the effect is triggered by those changes and is not
\* triggered by an edit of notes alone or of the pasture name alone.
C8_AsClaimed ==
    [][HandlerStep =>
          /\ (startDate' # startDate \/ InputKey(rows') # InputKey(rows)) => EffectPending'
          /\ lastOp' \in {"pasture", "notes"} => ~EffectPending']_vars

----------------------------------------------------------------------------
(* Claims about the map, under SpecMap *)

\* C9: a route of N anchors has max(0, N - 1) segments; the i-th of them
\* (counting from 0) runs from anchor i to anchor i + 1 and carries the number
\* i + 1, so the numbers are 1 .. N - 1 and there is no segment when N <= 1.
C9_RouteSegments ==
    LET N == Len(scene.routeAnchors)
    IN /\ Len(scene.segments) = Max(0, N - 1)
       /\ \A i \in 0..(Len(scene.segments) - 1) :
              /\ scene.segments[i + 1].key = i
              /\ scene.segments[i + 1].num = i + 1
              /\ scene.segments[i + 1].from = scene.routeAnchors[i + 1]
              /\ scene.segments[i + 1].to = scene.routeAnchors[i + 2]
       /\ {scene.segments[k].num : k \in DOMAIN scene.segments} = 1..(N - 1)

C9_Witness ==
    /\ Len(scene.routeAnchors) = 3
    /\ Len(scene.segments) = 2
    /\ scene.segments[2].num = 2
    /\ scene.segments[2].from.name = "New Pasture"
    /\ scene.segments[2].to.name = "ua-e"

\* the entries that are stops of the route: positive duration and a feature
\* under the lower-cased pasture name
IsStop(r) ==
    /\ r.grazingDays.t = "num"
    /\ r.grazingDays.v > 0
    /\ toLowerCase(r.pasture) \in DOMAIN featureByPasture

\* C10: the anchors are, in entry order, exactly the entries with a duration
\* above 0 and a matching feature; every other entry contributes no anchor and
\* no segment, and the stops around it are joined directly.
C10_RouteMembership ==
    LET stops == SelectSeq(rows, IsStop)
    IN /\ Len(scene.routeAnchors) = Len(stops)
       /\ \A k \in DOMAIN stops :
              /\ scene.routeAnchors[k].name = stops[k].pasture
              /\ scene.routeAnchors[k].center =
                     featureByPasture[toLowerCase(stops[k].pasture)].center
       /\ Len(scene.segments) = Max(0, Len(stops) - 1)
       /\ \A k \in 1..(Len(stops) - 1) :
              /\ scene.segments[k].from.name = stops[k].pasture
              /\ scene.segments[k].to.name = stops[k + 1].pasture

C10_Witness ==
    /\ Len(rows) = 3
    /\ rows[1].pasture = "UA-E" /\ rows[1].grazingDays = Num(5)
    /\ rows[2].pasture = "UA-G" /\ rows[2].grazingDays = Num(0)
    /\ rows[3].pasture = "ua-e" /\ rows[3].grazingDays = Num(1)
    /\ "ua-g" \in DOMAIN featureByPasture
    /\ Len(scene.routeAnchors) = 2
    /\ Len(scene.segments) = 1
    /\ scene.segments[1].from.name = "UA-E"
    /\ scene.segments[1].to.name = "ua-e"

----------------------------------------------------------------------------
(* Claims about what the map draws and labels, under SpecMap *)

\* C11 (as stated): the features drawn are exactly the features found under
\* the case-folded, trimmed name of some entry when there is such an entry,
\* and every loaded feature when there is none; once an entry matches, no
\* unmatched feature is drawn.
C11_AsClaimed ==
    LET normalized(r) == toLowerCase(trim(r.pasture))
        matching == {i \in DOMAIN rows : normalized(rows[i]) \in DOMAIN featureByPasture}
        matched == {featureByPasture[normalized(rows[i])] : i \in matching}
        loaded == {allFeatures[i] : i \in DOMAIN allFeatures}
        drawn == {scene.features[i] : i \in DOMAIN scene.features}
    IN drawn = (IF matched # {} THEN matched ELSE loaded)

\* C12 (as stated): every drawn feature whose normalized name is not the name
\* of a route stop gets exactly one plain label (its name, at its centre), and
\* a drawn feature whose name is a route stop's gets none, so every drawn
\* feature is labelled in exactly one of the two ways.
C12_AsClaimed ==
    LET stopNames == {toLowerCase(trim(scene.routeAnchors[i].name)) :
                          i \in DOMAIN scene.routeAnchors}
        offRoute(f) == toLowerCase(trim(f.label)) \notin stopNames
        plain == SelectSeq(scene.features, offRoute)
    IN scene.nonRouteLabels =
           [i \in DOMAIN plain |-> [text |-> plain[i].label, center |-> plain[i].center]]

----------------------------------------------------------------------------
(* overlapsSummerWindow as a function of an entry's start and end text. The
   entries the table shows carry the dates recompute wrote, so a start that is
   a date is never after an end that is a date; years are those format writes
   with four digits. *)

getFullYear(d) == format(d)[1]

\* areIntervalsOverlapping(left, right, { inclusive: true }) of two intervals
\* whose start is not after their end
areIntervalsOverlapping(left, right) ==
    left.start <= right.end /\ right.start <= left.end

overlapsSummerWindowStartYearOnly(startISO, endISO) ==
    LET s == parseISO(startISO)
        e == parseISO(endISO)
    IN IF ~isValid(s) \/ ~isValid(e) THEN FALSE
       ELSE LET y == getFullYear(s)
            IN areIntervalsOverlapping([start |-> s, end |-> e],
                   [start |-> parseISO(<<y, 7, 15>>), end |-> parseISO(<<y, 9, 15>>)])

\* for (let y = sy; y <= ey; y++) { if (overlapping) return true } return false
RECURSIVE summerLoop(_, _, _, _)
summerLoop(s, e, y, ey) ==
    IF y > ey THEN FALSE
    ELSE LET summerStart == parseISO(<<y, 7, 15>>)
             summerEnd == parseISO(<<y, 9, 15>>)
         IN IF areIntervalsOverlapping([start |-> s, end |-> e],
                                       [start |-> summerStart, end |-> summerEnd])
            THEN TRUE
            ELSE summerLoop(s, e, y + 1, ey)

overlapsSummerWindow(startISO, endISO) ==
    LET s == parseISO(startISO)
        e == parseISO(endISO)
    IN IF ~isValid(s) \/ ~isValid(e) THEN FALSE
       ELSE summerLoop(s, e, getFullYear(s), getFullYear(e))

SummerTexts ==
    {NoDate, NotADate, <<2025, 2, 30>>, <<2024, 12, 1>>, <<2025, 1, 1>>, <<2025, 2, 1>>,
     <<2025, 7, 1>>, <<2025, 7, 14>>, <<2025, 7, 15>>, <<2025, 7, 20>>, <<2025, 9, 15>>,
     <<2025, 9, 16>>, <<2026, 7, 14>>, <<2026, 7, 15>>}

InitSummer ==
    /\ AppIdle
    /\ MapIdle
    /\ \E s \in SummerTexts, e \in SummerTexts :
           /\ (isValid(parseISO(s)) /\ isValid(parseISO(e))) => parseISO(s) <= parseISO(e)
           /\ fnIn = [start |-> s, end |-> e]
    /\ fnOut = <<>>

\* SortableRow: inSummer of the row it renders
CallOverlapsSummerWindow ==
    /\ fnOut = <<>>
    /\ fnOut' = <<overlapsSummerWindow(fnIn.start, fnIn.end)>>
    /\ UNCHANGED <<fnIn, appVars, mapVars>>

NextSummer == CallOverlapsSummerWindow

SpecSummer == InitSummer /\ [][NextSummer]_vars

----------------------------------------------------------------------------
(* Claim about overlapsSummerWindow, under SpecSummer *)

\* a before or on b, as calendar dates
NotAfter(a, b) ==
    \/ a[1] < b[1]
    \/ a[1] = b[1] /\ a[2] < b[2]
    \/ a[1] = b[1] /\ a[2] = b[2] /\ a[3] <= b[3]

\* the days of July 15 .. September 15 of year y
SummerDays(y) ==
    {x \in {<<y, m, d>> : m \in 7..9, d \in 1..31} :
        /\ IsCalendarDate(x)
        /\ NotAfter(<<y, 7, 15>>, x)
        /\ NotAfter(x, <<y, 9, 15>>)}

SharesSummerDay(start, end) ==
    /\ IsCalendarDate(start)
    /\ IsCalendarDate(end)
    /\ \E y \in start[1]..end[1] : \E x \in SummerDays(y) :
           NotAfter(start, x) /\ NotAfter(x, end)

\* C13: overlapsSummerWindow(start, end) is TRUE exactly when both texts are
\* dates and some day of start .. end (both ends included) is a day of July 15
\* .. September 15 of a year from start's to end's; it is FALSE when either
\* text is empty or not a date. 2025-07-01 .. 2025-07-20 gives TRUE and
\* 2025-01-01 .. 2025-02-01 gives FALSE.
C13_SummerWindow ==
    \A k \in DOMAIN fnOut :
        /\ fnOut[k] = SharesSummerDay(fnIn.start, fnIn.end)
        /\ (~IsCalendarDate(fnIn.start) \/ ~IsCalendarDate(fnIn.end)) => fnOut[k] = FALSE
        /\ (fnIn.start = <<2025, 7, 1>> /\ fnIn.end = <<2025, 7, 20>>) => fnOut[k] = TRUE
        /\ (fnIn.start = <<2025, 1, 1>> /\ fnIn.end = <<2025, 2, 1>>) => fnOut[k] = FALSE

C13_Witness ==
    /\ fnIn = [start |-> <<2025, 9, 16>>, end |-> <<2026, 7, 15>>]
    /\ fnOut = <<TRUE>>

----------------------------------------------------------------------------
(* Claims about the CSV imports, under Spec *)

\* the name a pasture is compared under: case-folded and trimmed
Normalized(name) == toLowerCase(trim(name))

\* no row of the file names a current entry
Unmatched(csv, list) ==
    \A i \in DOMAIN csv : \A j \in DOMAIN list :
        Normalized(csv[i].pasture) # Normalized(list[j].pasture)

ImportStep ==
    /\ HandlerStep
    /\ lastOp' \in {"applyEstimatesFromCSV", "applyPreviousSeasonFromCSV"}

\* all fields of an entry but the two previous-season figures
BesidesPreviousSeason(r) ==
    <<r.id, r.pasture, r.acreage, r.herdSize, r.grazingDays, r.notes, r.estNativeADA,
      r.estPerennialADA, r.proposedADA, r.startDate, r.endDate>>

\* C14 (as amended): an import of a file none of whose rows names a current
\* entry keeps the entries and their order. An estimates import leaves every
\* field of every entry as it was. A previous-season import leaves every field
\* as it was but the two previous-season figures, and each of those becomes
\* the figure remembered under the entry's name from earlier imports or plan
\* saves where there is one, and stays as it was where there is none.
C14_UnmatchedImport ==
    [][(ImportStep /\ Unmatched(lastInput'.csv, rows)) =>
          /\ Len(rows') = Len(rows)
          /\ lastOp' = "applyEstimatesFromCSV" => rows' = rows
          /\ \A i \in DOMAIN rows :
                 /\ BesidesPreviousSeason(rows'[i]) = BesidesPreviousSeason(rows[i])
                 /\ lastOp' = "applyPreviousSeasonFromCSV" =>
                     /\ rows'[i].prevPlannedADA =
                            (IF rows[i].pasture \in DOMAIN prevPlannedDict
                             THEN prevPlannedDict[rows[i].pasture]
                             ELSE rows[i].prevPlannedADA)
                     /\ rows'[i].prevActualADA =
                            (IF rows[i].pasture \in DOMAIN prevActualDict
                             THEN prevActualDict[rows[i].pasture]
                             ELSE rows[i].prevActualADA)]_vars

\* an unmatched estimates import after one that set an estimate
C14_Witness ==
    /\ lastOp = "applyEstimatesFromCSV"
    /\ lastInput.csv[1].pasture = "Nowhere"
    /\ Unmatched(lastInput.csv, prevRows)
    /\ rows = prevRows
    /\ \E i \in DOMAIN rows : rows[i].estNativeADA = Num(1200)

\* C14 (as stated): an import of a file none of whose rows names a current
\* entry leaves every field of every entry as it was and keeps the order.
C14_AsClaimed ==
    [][(ImportStep /\ Unmatched(lastInput'.csv, rows)) => rows' = rows]_vars

\* the rows of a file that name something and are the last of their name
LastOfName(csv) ==
    {i \in DOMAIN csv :
        /\ trim(csv[i].pasture) # ""
        /\ \A k \in DOMAIN csv :
               Normalized(csv[k].pasture) = Normalized(csv[i].pasture) => k <= i}

\* C15 (as stated): in both imports a row of the file is merged into every
\* entry whose name equals the row's after case-folding and trimming: the
\* entry takes the row's two estimates, or the row's previous-season figures
\* where the row gives them, also when the two names differ in letter case.
C15_AsClaimed ==
    [][ImportStep =>
          \A i \in LastOfName(lastInput'.csv) : \A j \in DOMAIN rows :
              Normalized(lastInput'.csv[i].pasture) = Normalized(rows[j].pasture) =>
                  IF lastOp' = "applyEstimatesFromCSV"
                  THEN /\ rows'[j].estNativeADA = lastInput'.csv[i].native
                       /\ rows'[j].estPerennialADA = lastInput'.csv[i].perennial
                  ELSE /\ lastInput'.csv[i].planned # Null =>
                              rows'[j].prevPlannedADA = lastInput'.csv[i].planned
                       /\ lastInput'.csv[i].actual # Null =>
                              rows'[j].prevActualADA = lastInput'.csv[i].actual]_vars

----------------------------------------------------------------------------
(* Claims about drafts, under Spec *)

\* all fields of an entry but its id
BesidesId(r) ==
    <<r.pasture, r.acreage, r.herdSize, r.grazingDays, r.notes, r.prevPlannedADA,
      r.prevActualADA, r.estNativeADA, r.estPerennialADA, r.proposedADA, r.startDate,
      r.endDate>>

\* the drafts stored under a year, none when the year has no key
StoredUnder(drafts, year) == IF year \in DOMAIN drafts THEN drafts[year] ELSE <<>>

\* C16: a confirmed load of a stored draft makes the live list the draft's
\* entries, in the draft's order and with the draft's field values, each under
\* an id that no entry of the previous live list and no entry stored in the
\* draft has, makes the season start the draft's, and clears the selection; a
\* declined load, or a load of an id the year does not hold, leaves rows,
\* season start and selection as they were.
C16_DraftLoad ==
    [][(HandlerStep /\ lastOp' = "handleLoadDraft") =>
          LET arr == StoredUnder(draftsByYear, lastInput'.year)
              hits == {k \in DOMAIN arr : arr[k].id = lastInput'.id}
          IN IF hits # {} /\ lastInput'.confirmed
             THEN \E k \in hits :
                      /\ Len(rows') = Len(arr[k].rows)
                      /\ \A i \in DOMAIN rows' :
                             /\ BesidesId(rows'[i]) = BesidesId(arr[k].rows[i])
                             /\ rows'[i].id \notin Ids(rows) \cup Ids(arr[k].rows)
                             /\ \A j \in DOMAIN rows' : rows'[j].id = rows'[i].id => j = i
                      /\ startDate' = arr[k].startDate
                      /\ selectedRowId' = 0
             ELSE UNCHANGED <<rows, startDate, selectedRowId>>]_vars

\* the stored draft of 2024 loaded over a list of another length
C16_Witness ==
    /\ lastOp = "handleLoadDraft"
    /\ lastInput = [NoInput EXCEPT !.year = 2024, !.id = StoredDraftId, !.confirmed = TRUE]
    /\ Len(prevRows) # 2
    /\ Len(rows) = 2
    /\ rows[1].pasture = "UA-F"
    /\ rows[2].pasture = "UA-E"
    /\ startDate = <<2024, 2, 27>>
    /\ selectedRowId = 0

DraftYears == DOMAIN draftsByYear \cup DOMAIN draftsByYear'

ConfirmedDelete ==
    HandlerStep /\ lastOp' = "handleDeleteDraft" /\ lastInput'.confirmed

\* C17: a step changes the stored drafts in two ways only. A save appends one
\* draft, holding the live entries and season start of that moment under a new
\* id, at the end of one year's list and leaves every other draft and every
\* other year as it was. A confirmed delete takes the draft of the given id
\* out of the given year and leaves the other drafts of that year in their
\* order and the other years as they were. Every other step, whatever it does
\* to the live list, the season start or the selection, leaves every stored
\* draft, its entries, its season start and its position, as it was.
C17_DraftIndependence ==
    [][IF HandlerStep /\ lastOp' = "handleSaveDraft"
       THEN \E y \in DOMAIN draftsByYear' :
                LET old == StoredUnder(draftsByYear, y)
                    new == draftsByYear'[y]
                IN /\ Len(new) = Len(old) + 1
                   /\ SubSeq(new, 1, Len(old)) = old
                   /\ new[Len(new)].rows = rows
                   /\ new[Len(new)].startDate = startDate
                   /\ \A z \in DOMAIN draftsByYear : \A k \in DOMAIN draftsByYear[z] :
                          draftsByYear[z][k].id # new[Len(new)].id
                   /\ \A z \in DraftYears \ {y} :
                          StoredUnder(draftsByYear', z) = StoredUnder(draftsByYear, z)
       ELSE IF ConfirmedDelete
       THEN \A z \in DraftYears :
                StoredUnder(draftsByYear', z) =
                    IF z = lastInput'.year
                    THEN SelectSeq(StoredUnder(draftsByYear, z),
                                   LAMBDA d : d.id # lastInput'.id)
                    ELSE StoredUnder(draftsByYear, z)
       ELSE draftsByYear' = draftsByYear]_vars

\* the first of two drafts of 2024 deleted, the second kept
C17_Witness ==
    /\ lastOp = "handleDeleteDraft"
    /\ lastInput = [NoInput EXCEPT !.year = 2024, !.id = StoredDraftId, !.confirmed = TRUE]
    /\ 2024 \in DOMAIN draftsByYear
    /\ draftsByYear[2024] = <<laterStoredDraft>>

----------------------------------------------------------------------------
(* Claim about the carried-over figures, under Spec *)

Carried(r) == <<r.prevPlannedADA, r.prevActualADA, r.estNativeADA, r.estPerennialADA>>

\* entry j after the step is entry i before it
SameEntry(i, j) == i \in DOMAIN rows /\ j \in DOMAIN rows' /\ rows'[j].id = rows[i].id

\* the last entry of the list that carries this name
LastNamed(list, name) ==
    CHOOSE k \in DOMAIN list :
        list[k].pasture = name /\ \A m \in DOMAIN list : list[m].pasture = name => m <= k

\* C18 (as amended): the recompute effect and the field edits never change
\* the four carried-over figures of an entry. The two estimates of an entry
\* that stays in the list change in an estimates import only. Its two
\* previous-season figures change in a previous-season import and in "save
\* current as previous planned" only; that save writes a computed value: every
\* named entry's previous-season planned figure becomes the proposedADA of
\* the last entry of that name.
C18_CarriedOver ==
    [][\A i \in DOMAIN rows : \A j \in DOMAIN rows' : SameEntry(i, j) =>
          /\ ~HandlerStep => Carried(rows'[j]) = Carried(rows[i])
          /\ lastOp' \in {"pasture", "herdSize", "grazingDays", "notes"} =>
                 Carried(rows'[j]) = Carried(rows[i])
          /\ (rows'[j].estNativeADA # rows[i].estNativeADA
                \/ rows'[j].estPerennialADA # rows[i].estPerennialADA) =>
                 lastOp' = "applyEstimatesFromCSV"
          /\ (rows'[j].prevPlannedADA # rows[i].prevPlannedADA
                \/ rows'[j].prevActualADA # rows[i].prevActualADA) =>
                 lastOp' \in {"applyPreviousSeasonFromCSV", "saveCurrentAsPrevPlanned"}
          /\ (HandlerStep /\ lastOp' = "saveCurrentAsPrevPlanned" /\ rows[i].pasture # "") =>
                 rows'[j].prevPlannedADA =
                     rows[LastNamed(rows, rows[i].pasture)].proposedADA]_vars

\* a plan save that put a computed stocking density into a previous-season figure
C18_Witness ==
    /\ lastOp = "saveCurrentAsPrevPlanned"
    /\ \E i \in DOMAIN rows :
           /\ rows[i].proposedADA.v > 0
           /\ rows[i].prevPlannedADA = rows[i].proposedADA
           /\ prevRows[i].prevPlannedADA # rows[i].proposedADA

\* C18 (as stated): the four carried-over figures of an entry that stays in the
\* list change in a CSV import only.
C18_AsClaimed ==
    [][\A i \in DOMAIN rows : \A j \in DOMAIN rows' :
          (SameEntry(i, j) /\ Carried(rows'[j]) # Carried(rows[i])) =>
              (HandlerStep /\ lastOp' \in {"applyEstimatesFromCSV",
                                           "applyPreviousSeasonFromCSV"})]_vars

----------------------------------------------------------------------------
(* StaticMap's projection as a function of the features it draws. A drawn
   feature is one polygon ring of (lng, lat) vertices in whole degrees and the
   centre of mass turf gives for it; a polygon has positive extent in both
   directions. Mercator coordinates are in units of 10 km, rounded; from
   there on the arithmetic is exact, on fractions <<numerator, denominator>>
   in lowest terms. *)

MaxDrawn == 2

RECURSIVE GCD(_, _)
GCD(a, b) == IF b = 0 THEN a ELSE GCD(b, a % b)

Abs(n) == IF n < 0 THEN -n ELSE n

Frac(n, d) ==
    LET g == GCD(Abs(n), Abs(d))
        sign == IF d < 0 THEN -1 ELSE 1
    IN <<sign * (n \div g), sign * (d \div g)>>

Whole(n) == <<n, 1>>

Plus(a, b) ==
    LET g == GCD(a[2], b[2])
    IN Frac(a[1] * (b[2] \div g) + b[1] * (a[2] \div g), (a[2] \div g) * b[2])

Minus(a, b) == Plus(a, <<-b[1], b[2]>>)

Times(a, b) ==
    LET p == Frac(a[1], b[2])
        q == Frac(b[1], a[2])
    IN Frac(p[1] * q[1], p[2] * q[2])

Over(a, b) == Times(a, Frac(b[2], b[1]))

AtMost(a, b) == Minus(b, a)[1] >= 0

\* Math.min
Min(a, b) == IF AtMost(a, b) THEN a ELSE b

\* R * (lng * PI / 180)
MercX(lng) ==
    CASE lng = -112 -> -1247 [] lng = -111 -> -1236 [] lng = -110 -> -1225
      [] lng = -109 -> -1213 [] lng = -108 -> -1202 [] lng = -107 -> -1191
      [] lng = -106 -> -1180

\* R * Math.log(Math.tan(PI / 4 + (lat * PI / 180) / 2))
MercY(lat) ==
    CASE lat = 30 -> 350 [] lat = 31 -> 363 [] lat = 32 -> 376
      [] lat = 33 -> 390 [] lat = 34 -> 403

lonLatToMerc(p) == <<Whole(MercX(p[1])), Whole(MercY(p[2]))>>

rectangle(w, s, e, n) ==
    [ring |-> << <<w, s>>, <<e, s>>, <<e, n>>, <<w, n>>, <<w, s>> >>,
     center |-> <<(w + e) \div 2, (s + n) \div 2>>]

Polygons ==
    { rectangle(-112, 30, -110, 32), rectangle(-110, 32, -106, 34),
      rectangle(-112, 30, -106, 32), rectangle(-112, 30, -110, 34),
      rectangle(-108, 30, -106, 32), rectangle(-110, 32, -108, 34),
      rectangle(-112, 30, -106, 34),
      [ring |-> << <<-112, 30>>, <<-106, 30>>, <<-112, 33>>, <<-112, 30>> >>,
       center |-> <<-110, 31>>] }

\* turf.bbox of the feature collection: [minLng, minLat, maxLng, maxLat]
bbox(features) ==
    LET points == UNION {{features[i].ring[k] : k \in DOMAIN features[i].ring} :
                            i \in DOMAIN features}
        lngs == {p[1] : p \in points}
        lats == {p[2] : p \in points}
        least(S) == CHOOSE m \in S : \A n \in S : m <= n
        most(S) == CHOOSE m \in S : \A n \in S : n <= m
    IN <<least(lngs), least(lats), most(lngs), most(lats)>>

padFrac == <<3, 50>>
W == 1000
H == 700

\* min and max corner, padded box, the two ratios, the scale and the offsets
projection(features) ==
    LET box == bbox(features)
        lo == lonLatToMerc(<<box[1], box[2]>>)
        hi == lonLatToMerc(<<box[3], box[4]>>)
        dx == Minus(hi[1], lo[1])
        dy == Minus(hi[2], lo[2])
        x0 == Minus(lo[1], Times(dx, padFrac))
        x1 == Plus(hi[1], Times(dx, padFrac))
        y0 == Minus(lo[2], Times(dy, padFrac))
        y1 == Plus(hi[2], Times(dy, padFrac))
        sx == Over(Whole(W), Minus(x1, x0))
        sy == Over(Whole(H), Minus(y1, y0))
        s == Min(sx, sy)
    IN [x0 |-> x0, x1 |-> x1, y0 |-> y0, y1 |-> y1, sx |-> sx, sy |-> sy, s |-> s,
        ox |-> Over(Minus(Whole(W), Times(s, Minus(x1, x0))), Whole(2)),
        oy |-> Over(Minus(Whole(H), Times(s, Minus(y1, y0))), Whole(2))]

projectXYUnflipped(pr, p) ==
    LET m == lonLatToMerc(p)
    IN <<Plus(pr.ox, Times(Minus(m[1], pr.x0), pr.s)),
         Plus(pr.oy, Times(Minus(m[2], pr.y0), pr.s))>>

\* x = ox + (mx - x0) * s, y = oy + (y1 - my) * s
projectXY(pr, p) ==
    LET m == lonLatToMerc(p)
    IN <<Plus(pr.ox, Times(Minus(m[1], pr.x0), pr.s)),
         Plus(pr.oy, Times(Minus(pr.y1, m[2]), pr.s))>>

\* the vertices of every polygon path and the anchor of every label
drawing(features) ==
    LET pr == projection(features)
    IN [projection |-> pr,
        paths |-> [i \in DOMAIN features |->
                      [k \in DOMAIN features[i].ring |-> projectXY(pr, features[i].ring[k])]],
        anchors |-> [i \in DOMAIN features |-> projectXY(pr, features[i].center)]]

InitProjection ==
    /\ AppIdle
    /\ MapIdle
    /\ fnIn \in UNION {[1..n -> Polygons] : n \in 1..MaxDrawn}
    /\ fnOut = <<>>

RenderStaticMap ==
    /\ fnOut = <<>>
    /\ fnOut' = <<drawing(fnIn)>>
    /\ UNCHANGED <<fnIn, appVars, mapVars>>

NextProjection == RenderStaticMap

SpecProjection == InitProjection /\ [][NextProjection]_vars

----------------------------------------------------------------------------
(* Claim about the projection, under SpecProjection *)

\* every (lng, lat) the map draws for these features: ring vertices and centres
DrawnPoints(features) ==
    UNION {{features[i].ring[k] : k \in DOMAIN features[i].ring} \cup {features[i].center} :
              i \in DOMAIN features}

\* where the drawing put a (lng, lat)
Projected(d, features, p) ==
    UNION {{d.paths[i][k] : k \in {m \in DOMAIN features[i].ring : features[i].ring[m] = p}} :
              i \in DOMAIN features}
    \cup {d.anchors[i] : i \in {m \in DOMAIN features : features[m].center = p}}

\* C19: with the bounding box of the drawn features padded by 6% of its width
\* and height on every side, the drawing uses one scale on both axes, the
\* smaller of canvas width / box width and canvas height / box height, and
\* puts the box in the middle of the canvas; every ring vertex and every label
\* anchor lands inside the 1000 x 700 canvas, and of two points the one with
\* the larger latitude gets the smaller y.
C19_ProjectionFit ==
    \A n \in DOMAIN fnOut :
        LET d == fnOut[n]
            points == DrawnPoints(fnIn)
            xs == {MercX(p[1]) : p \in points}
            ys == {MercY(p[2]) : p \in points}
            minX == CHOOSE m \in xs : \A v \in xs : m <= v
            maxX == CHOOSE m \in xs : \A v \in xs : v <= m
            minY == CHOOSE m \in ys : \A v \in ys : m <= v
            maxY == CHOOSE m \in ys : \A v \in ys : v <= m
            width == Frac(112 * (maxX - minX), 100)
            height == Frac(112 * (maxY - minY), 100)
            fitX == Over(Whole(W), width)
            fitY == Over(Whole(H), height)
            scale == IF AtMost(fitX, fitY) THEN fitX ELSE fitY
            left == Frac(100 * minX - 6 * (maxX - minX), 100)
            top == Frac(100 * maxY + 6 * (maxY - minY), 100)
            marginX == Over(Minus(Whole(W), Times(scale, width)), Whole(2))
            marginY == Over(Minus(Whole(H), Times(scale, height)), Whole(2))
        IN /\ d.projection.s = scale
           /\ \A p \in points : \A xy \in Projected(d, fnIn, p) :
                  /\ xy[1] = Plus(marginX, Times(scale, Minus(Whole(MercX(p[1])), left)))
                  /\ xy[2] = Plus(marginY, Times(scale, Minus(top, Whole(MercY(p[2])))))
                  /\ AtMost(Whole(0), xy[1]) /\ AtMost(xy[1], Whole(W))
                  /\ AtMost(Whole(0), xy[2]) /\ AtMost(xy[2], Whole(H))
           /\ \A p \in points : \A q \in points :
                  p[2] > q[2] =>
                      \A a \in Projected(d, fnIn, p) : \A b \in Projected(d, fnIn, q) :
                          a[2] # b[2] /\ AtMost(a[2], b[2])
           /\ marginX = Whole(0) \/ marginY = Whole(0)

\* a wide box drawn: the width decides the scale and the box is centred vertically
C19_Witness ==
    /\ fnIn = <<rectangle(-112, 30, -106, 32)>>
    /\ Len(fnOut) = 1
    /\ fnOut[1].projection.s = fnOut[1].projection.sx
    /\ fnOut[1].projection.ox = Whole(0)
    /\ fnOut[1].projection.oy[1] > 0
    /\ AtMost(Whole(500), fnOut[1].anchors[1][1])
    /\ AtMost(fnOut[1].anchors[1][1], Whole(510))
    /\ fnOut[1].anchors[1][2] = Whole(350)

----------------------------------------------------------------------------
(* Claim about the recompute effect coming to rest, under SpecEffectRuns *)

\* a run of the recompute effect
EffectStep == events' = events /\ depKey' # depKey

Quiescent == ~EffectPending /\ rows = recompute(rows, startDate)

\* C20: a run of the recompute effect replaces the rows at most once and
\* leaves nothing for a further run: after it no effect is pending and the
\* rows are the ones recompute gives for them, so the effect never triggers
\* itself; and whenever a handler has left the effect pending, the planner
\* gets to such a state of rest.
C20_Quiescence ==
    /\ [][EffectStep => (~EffectPending' /\ rows' = recompute(rows', startDate'))]_vars
    /\ EffectPending ~> Quiescent

\* at rest after the effect rewrote the dates that a new season start calls for
C20_Witness ==
    /\ lastOp = "setStartDate"
    /\ Quiescent
    /\ Len(rows) > 1
    /\ rows # prevRows
    /\ rows[1].startDate = startDate
    /\ startDate # NoDate

----------------------------------------------------------------------------
(* Claim about entry ids, under Spec *)

DistinctIds(list) == \A i \in DOMAIN list : \A j \in DOMAIN list : list[i].id = list[j].id => i = j

IdsInOrder(list) == [i \in DOMAIN list |-> list[i].id]

\* C21: with ids handed out fresh, the entries of the live list always have
\* pairwise distinct ids. A field edit and a run of the recompute effect leave
\* every entry's id where it was, and a reorder only permutes the ids. A
\* duplication of an entry of the list puts one copy, equal to the original in
\* every field but the id and carrying an id no entry had, right after the
\* original and leaves the other entries in place.
C21_IdsUniqueAndStable ==
    /\ []DistinctIds(rows)
    /\ [][/\ (events' = events
                \/ lastOp' \in {"pasture", "herdSize", "grazingDays", "notes"}) =>
                 IdsInOrder(rows') = IdsInOrder(rows)
          /\ (HandlerStep /\ lastOp' = "handleDragEnd") =>
                 /\ Len(rows') = Len(rows)
                 /\ Ids(rows') = Ids(rows)
          /\ (HandlerStep /\ lastOp' \in {"duplicateRow", "copySelectedRow"}) =>
                 IF lastInput'.id \in Ids(rows)
                 THEN \E idx \in DOMAIN rows :
                          /\ rows[idx].id = lastInput'.id
                          /\ Len(rows') = Len(rows) + 1
                          /\ SubSeq(rows', 1, idx) = SubSeq(rows, 1, idx)
                          /\ SubSeq(rows', idx + 2, Len(rows')) = SubSeq(rows, idx + 1, Len(rows))
                          /\ BesidesId(rows'[idx + 1]) = BesidesId(rows[idx])
                          /\ rows'[idx + 1].id \notin Ids(rows)
                 ELSE rows' = rows]_vars

\* the first of two entries duplicated: its copy stands second under a new id
C21_Witness ==
    /\ lastOp = "duplicateRow"
    /\ Len(prevRows) = 2
    /\ Len(rows) = 3
    /\ lastInput.id = rows[1].id
    /\ rows[2].pasture = rows[1].pasture
    /\ rows[2].id \notin {rows[1].id, rows[3].id}
    /\ rows[3].id = prevRows[2].id
    /\ DistinctIds(rows)

=============================================================================
